---- MODULE Spec2Model ----
(***************************************************************************)
(* Book / tag catalogue service (FastAPI + SQLModel).                      *)
(*                                                                         *)
(* State: the three tables declared in src/db/models.py (books, tags and   *)
(* the book-tag association), the requests in flight and the last answer.  *)
(* Every request runs one service method of BookService / TagService       *)
(* against its own session.  The code of a method between two awaits of    *)
(* the storage (session.exec, session.commit) is one step; a method that   *)
(* reaches the storage once, or ends before it does, is a single step.     *)
(* The steps of different requests interleave.                             *)
(***************************************************************************)
EXTENDS Integers, Sequences, FiniteSets, TLC

(* ------------------------------ bounds -------------------------------- *)

\* Requests that can be in flight at the same time.
NReq == 2

\* Number of uuid4() draws for the rows of one table.
MaxUuid == 4

\* Longest list of tag names handed to add_tags_to_book.
MaxTagList == 2

\* Tag names and book titles that callers send.
Names == {"Fiction", "Adventure"}

Titles == {"T", "U"}

\* A published_date string "YYYY-MM-DD" is held as its three numbers.  The
\* first is the date the tests send ("2024-12-10"); the second has the form but
\* names no day of the calendar ("2024-02-30").
DateTexts == {[y |-> 2024, m |-> 12, d |-> 10], [y |-> 2024, m |-> 2, d |-> 30]}

\* BookCreateModel / BookUpdateModel: the payload of create_book and
\* update_book.  published_date is declared str; no validator looks at it.
Payloads ==
    [title : Titles, author : {"Author"}, publisher : {"Publisher"},
     published_date : DateTexts, page_count : {215}, language_code : {"En"}]

\* The payloads sent to update_book.
UpdatePayloads == {p \in Payloads : p.published_date.m = 12}

NoData ==
    [title |-> "", author |-> "", publisher |-> "",
     published_date |-> [y |-> 0, m |-> 0, d |-> 0], page_count |-> 0,
     language_code |-> ""]

\* An identifier that uuid4() never returned.
NoId == 0

RECURSIVE SeqsUpTo(_, _)
SeqsUpTo(S, n) ==
    IF n = 0 THEN {<<>>}
    ELSE LET shorter == SeqsUpTo(S, n - 1)
         IN  shorter \cup {Append(s, x) : s \in shorter, x \in S}

NameLists == SeqsUpTo(Names, MaxTagList)

(* ------------------------------ schema -------------------------------- *)

\* The attributes the mapped classes declare.
BookColumns ==
    {"uid", "title", "author", "publisher", "published_date", "page_count",
     "language_code", "created_at", "update_at", "tags"}

TagColumns == {"uid", "name", "created_at", "books"}

VARIABLES
    books,      \* table books: set of rows with the columns of Book
    tags,       \* table tags: set of rows [uid, name, created_at]
    book_tag,   \* table booktag: sequence of rows [book_id, tag_id]
    uuid,       \* uuid[table]: number of uuid4() values drawn for its rows
    req,        \* req[name]: the add_tag requests for name suspended at the
                \* await of their pre-check
    resp        \* the request answered last: its call and how it ended

vars == <<books, tags, book_tag, uuid, req, resp>>

db == <<books, tags, book_tag, uuid>>

RECURSIVE Sum(_, _)
Sum(f, S) ==
    IF S = {} THEN 0
    ELSE LET x == CHOOSE x \in S : TRUE IN f[x] + Sum(f, S \ {x})

\* The requests that are suspended at an await.
InFlight == Sum(req, Names)

NoCall ==
    [op |-> "", id |-> NoId, name |-> "", data |-> NoData, names |-> <<>>,
     with_tags |-> FALSE, form |-> ""]

\* Identifiers a caller can send to a book operation: the identifier of every
\* stored book and one that was never issued.  Likewise for tag operations.
BookIds == {b.uid : b \in books} \cup {NoId}

TagIds == {t.uid : t \in tags} \cup {NoId}

(* --------------------------- result values ---------------------------- *)

None == [uid |-> NoId]

Return(v) == [raised |-> "", value |-> v]

Raise(e) == [raised |-> e, value |-> None]

(* ------------------------------ queries ------------------------------- *)

\* select(<table>).where(<class>.<attr> == val): building the statement reads
\* the class attribute <attr>; a class that declares no such attribute raises
\* AttributeError there, before anything is sent to the storage.
Select(table, columns, attr, val) ==
    IF attr \notin columns
    THEN Raise("AttributeError")
    ELSE Return({row \in table : row[attr] = val})

\* result.first(): a row of the result, None when the result is empty.
first(rows) == IF rows = {} THEN None ELSE CHOOSE row \in rows : TRUE

\* The tags that the association rows `links` link to a book.
Linked(tagrows, links, book_uid) ==
    {t \in tagrows : \E i \in 1..Len(links) :
        links[i].book_id = book_uid /\ links[i].tag_id = t.uid}

\* The tag collection of a book as loaded by selectinload(Book.tags).
TagsOf(book_uid) == Linked(tags, book_tag, book_uid)

\* A book object with its tags collection.
Loaded(book, tagrows) ==
    [uid |-> book.uid, title |-> book.title, author |-> book.author,
     publisher |-> book.publisher, published_date |-> book.published_date,
     page_count |-> book.page_count, language_code |-> book.language_code,
     created_at |-> book.created_at, update_at |-> book.update_at,
     tags |-> tagrows]

\* BookService.get_book_or_404: both forms of the statement (with and without
\* selectinload) filter on Book.id.
get_book_or_404(book_id, with_tags) ==
    LET result == Select(books, BookColumns, "id", book_id)
        book   == first(result.value)
    IN  IF result.raised # "" THEN result
        ELSE IF book = None THEN Raise("BookNotFound")
        ELSE Return(Loaded(book, IF with_tags THEN TagsOf(book.uid) ELSE {}))

\* TagService.get_tag_by_uid: filters on Tag.id; None when no row matches.
get_tag_by_uid(tag_id) ==
    LET result == Select(tags, TagColumns, "id", tag_id)
    IN  IF result.raised # "" THEN result ELSE Return(first(result.value))

add_tag_lookupNone(name) == Return(None)

\* The pre-check of add_tag: select(Tag).where(Tag.name == name), first().
add_tag_lookup(name) ==
    LET result == Select(tags, TagColumns, "name", name)
    IN  IF result.raised # "" THEN result ELSE Return(first(result.value))

(* ------------------------- storage constraints ------------------------ *)

TagNameTakenOff(name) == FALSE

\* tags.name is declared unique: an INSERT of a name that a stored row
\* carries is rejected.
TagNameTaken(name) == \E t \in tags : t.name = name

BookTitleTakenOff(title) == FALSE

\* books.title is declared unique.
BookTitleTaken(title) == \E b \in books : b.title = title

IsLeap(y) == (y % 4 = 0 /\ y % 100 # 0) \/ y % 400 = 0

DaysIn(y, m) ==
    IF m = 2 THEN (IF IsLeap(y) THEN 29 ELSE 28)
    ELSE IF m \in {4, 6, 9, 11} THEN 30 ELSE 31

\* books.published_date is a DATE column and the service hands it the string
\* of the payload: the storage takes a string that names a day of the calendar
\* and refuses any other.
IsDateText(text) == text.m \in 1..12 /\ text.d \in 1..DaysIn(text.y, text.m)

\* The calendar date that the column holds for such a string.
DateOfText(text) == [year |-> text.y, month |-> text.m, day |-> text.d]

\* The latest created_at of a table.
Latest(table) ==
    IF table = {} THEN 0
    ELSE CHOOSE c \in {row.created_at : row \in table} :
            \A row \in table : row.created_at <= c

\* created_at is stamped when the row is inserted (Tag: default=datetime.now,
\* Book: default=func.now()): a reading of the clock, which is the reading of
\* the row inserted last or a later one.  Only the order of the readings
\* matters; they are held as ranks.
ClockReadings(table) ==
    IF table = {} THEN {1} ELSE {Latest(table), Latest(table) + 1}

(* ------------------------------ requests ------------------------------ *)

\* The request `call` ends, by returning (exc = "") or by raising exc, after
\* ncommits calls of session.commit().  n tells successive answers apart.
Finish(call, e, ncommits) ==
    resp' = [call |-> call, exc |-> e, value |-> <<>>, commits |-> ncommits,
             n |-> 1 - resp.n]

\* The request `call` returns: one object as <<object>>, a list as it is.
Answer(call, value, ncommits) ==
    resp' = [call |-> call, exc |-> "", value |-> value, commits |-> ncommits,
             n |-> 1 - resp.n]

\* TagService.add_tag up to the pre-check: raise TagAlreadyExists when a tag of
\* that name is found, go on to the insert otherwise.
add_tag_check ==
    /\ InFlight < NReq
    /\ \E name \in Names :
         LET call == [NoCall EXCEPT !.op = "add_tag", !.name = name]
             tag  == add_tag_lookup(name)
         IN  IF tag.raised # ""
             THEN Finish(call, tag.raised, 0) /\ UNCHANGED req
             ELSE IF tag.value # None
             THEN Finish(call, "TagAlreadyExists", 0) /\ UNCHANGED req
             ELSE /\ req' = [req EXCEPT ![name] = @ + 1]
                  /\ UNCHANGED resp
    /\ UNCHANGED db

\* TagService.add_tag from session.add(new_tag): the commit inserts the row
\* with a fresh uid, or fails on the unique name and stores nothing.
add_tag_commit ==
    \E name \in Names :
      /\ req[name] > 0
      /\ LET call == [NoCall EXCEPT !.op = "add_tag", !.name = name]
         IN  IF TagNameTaken(name)
             THEN /\ Finish(call, "IntegrityError", 1)
                  /\ UNCHANGED db
             ELSE /\ uuid.tags < MaxUuid
                  /\ \E now \in ClockReadings(tags) :
                       LET new_tag == [uid |-> uuid.tags + 1, name |-> name,
                                       created_at |-> now]
                       IN  /\ tags' = tags \cup {new_tag}
                           /\ Answer(call, <<new_tag>>, 1)
                  /\ uuid' = [uuid EXCEPT !.tags = @ + 1]
                  /\ UNCHANGED <<books, book_tag>>
      /\ req' = [req EXCEPT ![name] = @ - 1]

\* Book(**book_data.model_dump()) as the INSERT stores it: the mapped class
\* takes the fields as they are, published_date as the string of the payload,
\* which the column turns into a date; uid, created_at and update_at are filled
\* at the INSERT.
NewBook(book_data, uid, now) ==
    [uid |-> uid, title |-> book_data.title, author |-> book_data.author,
     publisher |-> book_data.publisher,
     published_date |-> DateOfText(book_data.published_date),
     page_count |-> book_data.page_count,
     language_code |-> book_data.language_code,
     created_at |-> now, update_at |-> now]

\* BookService.create_book: one commit that inserts the book with a fresh
\* uid, or fails and stores nothing: on a published_date string that the DATE
\* column refuses, or on the unique title.
create_book ==
    /\ \E book_data \in Payloads :
         LET call == [NoCall EXCEPT !.op = "create_book", !.data = book_data]
         IN  IF ~ IsDateText(book_data.published_date)
             THEN /\ Finish(call, "DataError", 1)
                  /\ UNCHANGED db
             ELSE IF BookTitleTaken(book_data.title)
             THEN /\ Finish(call, "IntegrityError", 1)
                  /\ UNCHANGED db
             ELSE /\ uuid.books < MaxUuid
                  /\ \E now \in ClockReadings(books) :
                       LET new_book == NewBook(book_data, uuid.books + 1, now)
                       IN  /\ books' = books \cup {new_book}
                           /\ Answer(call, <<new_book>>, 1)
                  /\ uuid' = [uuid EXCEPT !.books = @ + 1]
                  /\ UNCHANGED <<tags, book_tag>>
    /\ UNCHANGED req

\* TagService.update_tag: the lookup get_tag_by_uid raises, or returns None
\* and the method raises HTTPException(404).  The assignment loop, commit and
\* refresh (service.py 168-177) run only after a lookup that returns a tag;
\* the lookup raises in every reachable state (LookupsByIdRaise), so they have
\* no step here.
update_tag ==
    /\ \E tag_uid \in TagIds, name \in Names :
         LET call == [NoCall EXCEPT !.op = "update_tag", !.id = tag_uid,
                                    !.name = name]
             tag  == get_tag_by_uid(tag_uid)
         IN  /\ tag.raised # "" \/ tag.value = None
             /\ Finish(call,
                       IF tag.raised # "" THEN tag.raised ELSE "HTTPException404", 0)
    /\ UNCHANGED <<db, req>>

\* TagService.delete_tag: the lookup raises, or returns None and the method
\* raises TagNotFound.  session.delete and commit (service.py 202-204) run only
\* after a lookup that returns a tag, which no reachable state has
\* (LookupsByIdRaise).
delete_tag ==
    /\ \E tag_id \in TagIds :
         LET call == [NoCall EXCEPT !.op = "delete_tag", !.id = tag_id]
             tag  == get_tag_by_uid(tag_id)
         IN  /\ tag.raised # "" \/ tag.value = None
             /\ Finish(call, IF tag.raised # "" THEN tag.raised ELSE "TagNotFound", 0)
    /\ UNCHANGED <<db, req>>

\* TagService.add_tags_to_book: whatever get_book_or_404 raises propagates.
\* The loop over the names, session.add, commit and refresh (service.py 67-82)
\* run only after a lookup that returns a book, which no reachable state has
\* (LookupsByIdRaise).
add_tags_to_book ==
    /\ \E book_id \in BookIds, names \in NameLists :
         LET call == [NoCall EXCEPT !.op = "add_tags_to_book", !.id = book_id,
                                    !.names = names]
             book == get_book_or_404(book_id, TRUE)
         IN  /\ book.raised # ""
             /\ Finish(call, book.raised, 0)
    /\ UNCHANGED <<db, req>>

\* BookService.delete_book: whatever get_book_or_404 raises propagates.
\* session.delete and commit (service.py 152-160) run only after a lookup that
\* returns a book, which no reachable state has (LookupsByIdRaise).
delete_book ==
    /\ \E book_id \in BookIds :
         LET call == [NoCall EXCEPT !.op = "delete_book", !.id = book_id]
             book_to_delete == get_book_or_404(book_id, TRUE)
         IN  /\ book_to_delete.raised # ""
             /\ Finish(call, book_to_delete.raised, 0)
    /\ UNCHANGED <<db, req>>

\* BookService.get_book_or_404 called with an identifier: the lookup raises,
\* or returns the book.
call_get_book_or_404 ==
    /\ \E book_id \in BookIds, with_tags \in BOOLEAN :
         LET call == [NoCall EXCEPT !.op = "get_book_or_404", !.id = book_id,
                                    !.with_tags = with_tags]
             book == get_book_or_404(book_id, with_tags)
         IN  IF book.raised # ""
             THEN Finish(call, book.raised, 0)
             ELSE Answer(call, <<book.value>>, 0)
    /\ UNCHANGED <<db, req>>

\* BookService.update_book: whatever get_book_or_404 raises propagates.  The
\* assignment loop, commit and refresh (service.py 115-127) run only after a
\* lookup that returns a book, which no reachable state has (LookupsByIdRaise).
update_book ==
    /\ \E book_id \in BookIds, update_data \in UpdatePayloads :
         LET call == [NoCall EXCEPT !.op = "update_book", !.id = book_id,
                                    !.data = update_data]
             book_to_update == get_book_or_404(book_id, FALSE)
         IN  /\ book_to_update.raised # ""
             /\ Finish(call, book_to_update.raised, 0)
    /\ UNCHANGED <<db, req>>

order_by_asc(rows) ==
    {s \in [1..Cardinality(rows) -> rows] :
        /\ \A i, j \in DOMAIN s : i # j => s[i] # s[j]
        /\ \A i, j \in DOMAIN s : i < j => s[i].created_at <= s[j].created_at}

\* order_by(desc(<class>.created_at)) and result.all(): every row once, a row
\* with a later created_at before a row with an earlier one; the storage puts
\* rows of one created_at in any order.
order_by_desc(rows) ==
    {s \in [1..Cardinality(rows) -> rows] :
        /\ \A i, j \in DOMAIN s : i # j => s[i] # s[j]
        /\ \A i, j \in DOMAIN s : i < j => s[i].created_at >= s[j].created_at}

\* BookService.get_all_books: the books from the newest, each with its tags
\* when with_tags.
get_all_books ==
    /\ \E with_tags \in BOOLEAN, result \in order_by_desc(books) :
         LET call == [NoCall EXCEPT !.op = "get_all_books",
                                    !.with_tags = with_tags]
         IN  Answer(call,
                    [i \in DOMAIN result |->
                        Loaded(result[i],
                               IF with_tags THEN TagsOf(result[i].uid) ELSE {})],
                    0)
    /\ UNCHANGED <<db, req>>

\* TagService.get_tags: the tags from the newest.
get_tags ==
    /\ \E result \in order_by_desc(tags) :
         Answer([NoCall EXCEPT !.op = "get_tags"], result, 0)
    /\ UNCHANGED <<db, req>>

(* ------------------------------- routes ------------------------------- *)

\* The last segment of a request path /books/{book_id}: the text of an
\* identifier (of a stored book, or of none), or the text of an integer.
\* Integers are held as negative numbers, apart from every identifier.
PathSegments ==
    {[form |-> "uuid", id |-> i] : i \in BookIds} \cup {[form |-> "int", id |-> -1]}

\* The path parameter `book_id: int`: a segment that is not the text of an
\* integer is refused before the route function runs.
path_int(segment) ==
    IF segment.form = "int"
    THEN Return([uid |-> segment.id])
    ELSE Raise("RequestValidationError")

\* What a route makes of the result of a service method: an exception
\* propagates, and a None result raises BookNotFound (routes.py 147-148,
\* 177-178).
raise_if_none(result) ==
    IF result.raised # "" THEN result.raised
    ELSE IF result.value = None THEN "BookNotFound"
    ELSE ""

\* GET /books/{book_id}: get_book_or_404 with the integer of the path.
route_get_book ==
    /\ \E segment \in PathSegments :
         LET call == [NoCall EXCEPT !.op = "GET /books/{book_id}",
                                    !.id = segment.id, !.form = segment.form,
                                    !.with_tags = TRUE]
             book_id == path_int(segment)
             book    == get_book_or_404(book_id.value.uid, TRUE)
         IN  IF book_id.raised # ""
             THEN Finish(call, book_id.raised, 0)
             ELSE /\ book.raised # ""
                  /\ Finish(call, book.raised, 0)
    /\ UNCHANGED <<db, req>>

\* PUT /books/{book_id}: BookService.update_book ends at its lookup.
route_update_book ==
    /\ \E segment \in PathSegments, updated_book_data \in UpdatePayloads :
         LET call == [NoCall EXCEPT !.op = "PUT /books/{book_id}",
                                    !.id = segment.id, !.form = segment.form,
                                    !.data = updated_book_data]
             book_id == path_int(segment)
             updated_book == get_book_or_404(book_id.value.uid, FALSE)
         IN  IF book_id.raised # ""
             THEN Finish(call, book_id.raised, 0)
             ELSE /\ raise_if_none(updated_book) # ""
                  /\ Finish(call, raise_if_none(updated_book), 0)
    /\ UNCHANGED <<db, req>>

\* DELETE /books/{book_id}: BookService.delete_book ends at its lookup.
route_delete_book ==
    /\ \E segment \in PathSegments :
         LET call == [NoCall EXCEPT !.op = "DELETE /books/{book_id}",
                                    !.id = segment.id, !.form = segment.form]
             book_id == path_int(segment)
             book_to_delete == get_book_or_404(book_id.value.uid, TRUE)
         IN  IF book_id.raised # ""
             THEN Finish(call, book_id.raised, 0)
             ELSE /\ raise_if_none(book_to_delete) # ""
                  /\ Finish(call, raise_if_none(book_to_delete), 0)
    /\ UNCHANGED <<db, req>>

(* ------------------------------ responses ----------------------------- *)

\* The exceptions of the storage layer (subclasses of SQLAlchemyError).
SQLAlchemyError == {"IntegrityError", "DataError"}

ErrorResponseEcho(exc) ==
    [status |-> 500, message |-> exc, error_code |-> "server_error"]

\* register_all_errors: the response for a request that ended by raising exc.
\* An exception with no handler of its own is answered by the handler for 500.
\* HTTPException and RequestValidationError are answered by the handlers that
\* FastAPI installs: the status of the exception with a `detail` body, and 422.
ErrorResponse(exc) ==
    CASE exc = "BookNotFound" ->
            [status |-> 404, message |-> "Book Not Found",
             error_code |-> "book_not_found"]
      [] exc = "TagNotFound" ->
            [status |-> 404, message |-> "Tag Not Found",
             error_code |-> "tag_not_found"]
      [] exc = "TagAlreadyExists" ->
            [status |-> 403, message |-> "Tag Already exists",
             error_code |-> "tag_exists"]
      [] exc = "TagDuplicatedName" ->
            [status |-> 409,
             message |-> "Exists more than 1 tag with the same name",
             error_code |-> "tag_duplicated_name"]
      [] exc \in SQLAlchemyError ->
            [status |-> 500, message |-> "Oops! Something went wrong",
             error_code |-> "server_error"]
      [] exc = "HTTPException404" ->
            [status |-> 404, message |-> "", error_code |-> ""]
      [] exc = "RequestValidationError" ->
            [status |-> 422, message |-> "", error_code |-> ""]
      [] OTHER ->
            [status |-> 500, message |-> "Oops! Something went wrong",
             error_code |-> "server_error"]

(* --------------------------- specification ---------------------------- *)

Init ==
    /\ books = {}
    /\ tags = {}
    /\ book_tag = <<>>
    /\ uuid = [books |-> 0, tags |-> 0]
    /\ req = [name \in Names |-> 0]
    /\ resp = [call |-> NoCall, exc |-> "", value |-> <<>>, commits |-> 0,
               n |-> 0]

Next ==
    \/ add_tag_check
    \/ add_tag_commit
    \/ create_book
    \/ update_tag
    \/ delete_tag
    \/ add_tags_to_book
    \/ delete_book
    \/ call_get_book_or_404
    \/ update_book
    \/ get_all_books
    \/ get_tags
    \/ route_get_book
    \/ route_update_book
    \/ route_delete_book

Spec == Init /\ [][Next]_vars

(* ------------------------------- claims ------------------------------- *)

Range(seq) == {seq[i] : i \in 1..Len(seq)}

\* The step answers a request.
Answered == resp'.n # resp.n

\* The step answers the request `op`.
Answers(op) == Answered /\ resp'.call.op = op

BookStored(book_id) == \E b \in books : b.uid = book_id

\* C1: in every reachable state, under every interleaving of add_tag,
\* update_tag, delete_tag and add_tags_to_book requests, no two stored tags
\* have the same name.
C1_TagNamesUnique ==
    \A t1 \in tags, t2 \in tags : t1.name = t2.name => t1.uid = t2.uid

\* Two add_tag requests for one name both passed the pre-check; the second
\* commit was refused and every name is stored.
C1_Witness ==
    /\ resp.call.op = "add_tag"
    /\ resp.exc = "IntegrityError"
    /\ {t.name : t \in tags} = Names

C4_ReattachIsNoOp ==
    [][(/\ resp.call.op = "add_tags_to_book"
        /\ BookStored(resp.call.id)
        /\ Answers("add_tags_to_book")
        /\ resp'.call = resp.call)
       => /\ resp'.exc = ""
          /\ db' = db]_vars

\* C5: add_tags_to_book on a stored book without tags and a list of distinct
\* names returns the book, whose tags then carry exactly the names of the list.
C5_AttachYieldsExactlyNames ==
    [][LET call == resp'.call
       IN  (/\ Answers("add_tags_to_book")
            /\ BookStored(call.id)
            /\ TagsOf(call.id) = {}
            /\ Cardinality(Range(call.names)) = Len(call.names))
           => /\ resp'.exc = ""
              /\ {t.name : t \in Linked(tags', book_tag', call.id)} = Range(call.names)]_vars

\* C6: add_tags_to_book links the book to the stored tag of each name that has
\* one, and the tag table grows by the number of distinct names of the list
\* that were not stored.
C6_AttachReusesStoredTags ==
    [][LET call == resp'.call
           fresh == {n \in Range(call.names) : ~ \E t \in tags : t.name = n}
       IN  (/\ Answers("add_tags_to_book")
            /\ BookStored(call.id)
            /\ \E t \in tags : t.name \in Range(call.names))
           => /\ resp'.exc = ""
              /\ \A t \in tags :
                    t.name \in Range(call.names) => t \in Linked(tags', book_tag', call.id)
              /\ Cardinality(tags') = Cardinality(tags) + Cardinality(fresh)]_vars

\* C7: add_tags_to_book on an identifier that is not stored raises
\* BookNotFound, without a commit and with every table as before.
C7_AttachToMissingBook ==
    [][(/\ Answers("add_tags_to_book")
        /\ ~ BookStored(resp'.call.id))
       => /\ resp'.exc = "BookNotFound"
          /\ resp'.commits = 0
          /\ db' = db]_vars

\* C8: an add_tags_to_book request on a stored book issues exactly one commit,
\* and stores all of its tags and association rows or none of them.
C8_AttachIsOneUnitOfWork ==
    [][LET call == resp'.call
       IN  (/\ Answers("add_tags_to_book")
            /\ BookStored(call.id))
           => /\ resp'.commits = 1
              /\ \/ db' = db
                 \/ {t.name : t \in Linked(tags', book_tag', call.id)} =
                        {t.name : t \in TagsOf(call.id)} \cup Range(call.names)]_vars

\* C9: delete_book on a stored book succeeds and removes it, and a delete_book
\* of the same identifier right after that raises BookNotFound and changes
\* nothing.
C9_DeleteBookTwice ==
    [][LET call == resp'.call
       IN  /\ (Answers("delete_book") /\ BookStored(call.id))
              => /\ resp'.exc = ""
                 /\ ~ \E b \in books' : b.uid = call.id
           /\ (/\ Answers("delete_book")
               /\ ~ BookStored(call.id)
               /\ resp.call = call
               /\ resp.exc = "")
              => /\ resp'.exc = "BookNotFound"
                 /\ db' = db]_vars

TagStored(tag_id) == \E t \in tags : t.uid = tag_id

\* The fields of a book object equal those of the payload F, the published date
\* as the calendar date that F names.
FieldsEqual(book, F) ==
    /\ book.title = F.title
    /\ book.author = F.author
    /\ book.publisher = F.publisher
    /\ book.published_date = DateOfText(F.published_date)
    /\ book.page_count = F.page_count
    /\ book.language_code = F.language_code

\* C11: get_book_or_404, update_book, delete_book and add_tags_to_book on an
\* identifier that is not stored raise BookNotFound; none of them returns None
\* and none of them changes a table.
C11_MissingBookRaises ==
    [][LET call == resp'.call
       IN  (/\ Answered
            /\ call.op \in {"get_book_or_404", "update_book", "delete_book",
                             "add_tags_to_book"}
            /\ ~ BookStored(call.id))
           => /\ resp'.exc = "BookNotFound"
              /\ resp'.value # <<None>>
              /\ db' = db]_vars

\* C12: GET, PUT and DELETE on /books/{book_id} for a book that is not stored
\* are answered 404 with the body
\* {"message": "Book Not Found", "error_code": "book_not_found"}.
C12_MissingBookIs404 ==
    [][LET call == resp'.call
       IN  (/\ Answered
            /\ call.op \in {"GET /books/{book_id}", "PUT /books/{book_id}",
                             "DELETE /books/{book_id}"}
            /\ ~ BookStored(call.id))
           => ErrorResponse(resp'.exc) =
                  [status |-> 404, message |-> "Book Not Found",
                   error_code |-> "book_not_found"]]_vars

\* C13: update_tag and delete_tag on an identifier that is not stored are
\* answered 404 with error_code tag_not_found, add_tag on a stored name is
\* answered 403 with error_code tag_exists, and no tag operation is answered
\* 404 without the code tag_not_found.
C13_TagErrorsCarryCode ==
    [][LET call == resp'.call
           response == ErrorResponse(resp'.exc)
       IN  /\ (/\ Answered
               /\ call.op \in {"update_tag", "delete_tag"}
               /\ ~ TagStored(call.id))
              => /\ response.status = 404
                 /\ response.error_code = "tag_not_found"
           /\ (/\ Answers("add_tag")
               /\ resp'.commits = 0
               /\ \E t \in tags : t.name = call.name)
              => /\ response.status = 403
                 /\ response.error_code = "tag_exists"
           /\ (/\ Answered
               /\ call.op \in {"update_tag", "delete_tag", "add_tag", "get_tags"}
               /\ resp'.exc # ""
               /\ response.status = 404)
              => response.error_code = "tag_not_found"]_vars

\* C14: a request that ends with an exception raised by its commit (a failure
\* of the storage) is answered 500 with the body
\* {"message": "Oops! Something went wrong", "error_code": "server_error"},
\* whatever the exception: nothing of the exception is in the body.
C14_StorageFailureIs500 ==
    (resp.exc # "" /\ resp.commits > 0)
    => /\ ErrorResponse(resp.exc) =
              [status |-> 500, message |-> "Oops! Something went wrong",
               error_code |-> "server_error"]
       /\ \A e \in SQLAlchemyError : ErrorResponse(e) = ErrorResponse(resp.exc)

\* The commit of a create_book was refused: on the unique title, with another
\* book stored.
C14_Witness ==
    /\ resp.call.op = "create_book"
    /\ resp.exc = "IntegrityError"
    /\ resp.commits = 1
    /\ \E b \in books : b.title = resp.call.data.title

\* C15: of the add_tag requests for one name that passed the pre-check
\* together, the one that commits while no tag of the name is stored stores
\* exactly one tag of the name; one that commits after it ends in
\* IntegrityError, not TagAlreadyExists, and leaves the tables as they are.
C15_AddTagRace ==
    [][\A name \in Names :
         LET stored(table) == {t \in table : t.name = name}
         IN  (/\ req[name] > 0
              /\ req'[name] = req[name] - 1)
             => /\ Answers("add_tag")
                /\ resp'.call.name = name
                /\ resp'.commits = 1
                /\ IF stored(tags) = {}
                   THEN /\ resp'.exc = ""
                        /\ Cardinality(stored(tags')) = 1
                   ELSE /\ resp'.exc = "IntegrityError"
                        /\ db' = db]_vars

\* Two add_tag requests for a new name had both passed the pre-check; both
\* have committed: the second was refused and one tag of the name is stored.
C15_Witness ==
    /\ resp.call.op = "add_tag"
    /\ resp.exc = "IntegrityError"
    /\ req[resp.call.name] = 0
    /\ Cardinality({t \in tags : t.name = resp.call.name}) = 1

\* C16: get_book_or_404 with the identifier that a successful create_book with
\* fields F has just returned returns a book whose title, author, publisher,
\* published date (as a calendar date), page count and language code equal F.
C16_CreateThenGet ==
    [][(/\ resp.call.op = "create_book"
        /\ resp.exc = ""
        /\ Answers("get_book_or_404")
        /\ resp'.call.id = resp.value[1].uid)
       => /\ resp'.exc = ""
          /\ FieldsEqual(resp'.value[1], resp.call.data)]_vars

\* C17: the book that create_book returns has an identifier that is not nil
\* and is the identifier of no other stored book; a stored book keeps its
\* identifier, and every get_book_or_404, update_book and add_tags_to_book of
\* a stored book returns the book with that identifier.
C17_IdentifierIsStable ==
    [][LET call == resp'.call
       IN  /\ (Answers("create_book") /\ resp'.exc = "")
              => /\ resp'.value[1].uid # NoId
                 /\ \A b \in books : b.uid # resp'.value[1].uid
           /\ \A b \in books, b2 \in books' :
                 b2.title = b.title => b2.uid = b.uid
           /\ (/\ Answered
               /\ call.op \in {"get_book_or_404", "update_book",
                                "add_tags_to_book"}
               /\ BookStored(call.id))
              => /\ resp'.exc = ""
                 /\ resp'.value[1].uid = call.id]_vars

\* C18: update_book on a stored book commits once and returns the book, and
\* afterwards every mutable field of the stored book (title, author,
\* publisher, published date, page count, language code) is that of the
\* payload.
C18_UpdateReplacesFields ==
    [][LET call == resp'.call
       IN  (/\ Answers("update_book")
            /\ BookStored(call.id))
           => /\ resp'.exc = ""
              /\ resp'.commits = 1
              /\ resp'.value[1].uid = call.id
              /\ \E b \in books' : b.uid = call.id /\ FieldsEqual(b, call.data)]_vars

\* C19: create_book with a published_date string that names no day of the
\* calendar is refused with a validation error, before anything is sent to the
\* storage, and stores no book; the published date of every stored book is a
\* day of the calendar.
C19_BadDateIsValidationError ==
    [][LET call == resp'.call
       IN  /\ (/\ Answers("create_book")
               /\ ~ IsDateText(call.data.published_date))
              => /\ resp'.exc = "RequestValidationError"
                 /\ resp'.commits = 0
                 /\ books' = books
           /\ \A b \in books' :
                 /\ b.published_date.month \in 1..12
                 /\ b.published_date.day \in
                        1..DaysIn(b.published_date.year, b.published_date.month)]_vars

\* The list `result` holds every row of `table` once, and of two of its
\* entries the one created later comes first.
NewestFirst(result, table) ==
    /\ Len(result) = Cardinality(table)
    /\ {result[i].uid : i \in DOMAIN result} = {row.uid : row \in table}
    /\ \A i, j \in DOMAIN result :
          result[i].created_at > result[j].created_at => i < j

\* C20: get_all_books and get_tags return every stored record once, a record
\* created later before a record created earlier.
C20_ListsNewestFirst ==
    [][/\ Answers("get_all_books") => NewestFirst(resp'.value, books)
       /\ Answers("get_tags") => NewestFirst(resp'.value, tags)]_vars

\* get_all_books has returned two books that were created at different times.
C20_Witness ==
    /\ resp.call.op = "get_all_books"
    /\ resp.exc = ""
    /\ Len(resp.value) = 2
    /\ resp.value[1].created_at > resp.value[2].created_at

\* C22: no two stored books have the same title, and a create_book or
\* update_book whose title is that of another stored book fails and leaves the
\* tables as they are.
C22_BookTitlesUnique ==
    [][LET call == resp'.call
       IN  /\ \A b1 \in books', b2 \in books' :
                 b1.title = b2.title => b1.uid = b2.uid
           /\ (/\ Answered
               /\ call.op \in {"create_book", "update_book"}
               /\ \E b \in books : b.title = call.data.title /\ b.uid # call.id)
              => /\ resp'.exc # ""
                 /\ db' = db]_vars

\* Every title is stored and a create_book for one of them was refused at its
\* commit.
C22_Witness ==
    /\ resp.call.op = "create_book"
    /\ resp.exc = "IntegrityError"
    /\ {b.title : b \in books} = Titles

\* C23: the identifier of a stored record, as a create returned it, is taken
\* by every operation that is given an identifier: the route accepts its type
\* and the lookup is built on the key the records carry.
C23_OneIdentifierScheme ==
    [][LET call == resp'.call
       IN  /\ (/\ Answered
               /\ call.op \in {"GET /books/{book_id}", "PUT /books/{book_id}",
                                "DELETE /books/{book_id}"}
               /\ call.form = "uuid"
               /\ BookStored(call.id))
              => resp'.exc \notin {"RequestValidationError", "AttributeError"}
           /\ (/\ Answered
               /\ call.op \in {"get_book_or_404", "update_book", "delete_book",
                                "add_tags_to_book"}
               /\ BookStored(call.id))
              => resp'.exc # "AttributeError"
           /\ (/\ Answered
               /\ call.op \in {"update_tag", "delete_tag"}
               /\ TagStored(call.id))
              => resp'.exc # "AttributeError"]_vars

\* C24: update_tag of a stored tag to the name of another stored tag is
\* answered 409 and leaves the tag table as it is.
C24_UpdateTagDuplicateIs409 ==
    [][LET call == resp'.call
       IN  (/\ Answers("update_tag")
            /\ TagStored(call.id)
            /\ \E t \in tags : t.name = call.name /\ t.uid # call.id)
           => /\ ErrorResponse(resp'.exc).status = 409
              /\ tags' = tags]_vars

\* C27: add_tags_to_book on a stored book with a list that holds a name twice
\* ends as with the list without the repetition: it succeeds, a name that was
\* not stored has one tag afterwards, and the book is linked to the names of
\* the list besides those it was linked to.
C27_RepeatedNameAsOnce ==
    [][LET call == resp'.call
       IN  (/\ Answers("add_tags_to_book")
            /\ BookStored(call.id)
            /\ Cardinality(Range(call.names)) < Len(call.names))
           => /\ resp'.exc = ""
              /\ \A name \in Range(call.names) :
                    Cardinality({t \in tags' : t.name = name}) = 1
              /\ {t.name : t \in Linked(tags', book_tag', call.id)} =
                     {t.name : t \in TagsOf(call.id)} \cup Range(call.names)]_vars

(* ------------------------- facts about the model ---------------------- *)

\* Every lookup by identifier raises AttributeError, whatever the identifier:
\* Book and Tag declare `uid`, the services filter on `id`.
LookupsByIdRaise ==
    \A i \in 0..MaxUuid :
        /\ get_book_or_404(i, TRUE).raised = "AttributeError"
        /\ get_book_or_404(i, FALSE).raised = "AttributeError"
        /\ get_tag_by_uid(i).raised = "AttributeError"

\* No association row and no deletion is ever stored: the requests that would
\* store them end at the lookup by identifier.
NoRowLinkedOrDeleted ==
    /\ book_tag = <<>>
    /\ Cardinality(books) = uuid.books
    /\ Cardinality(tags) = uuid.tags

====
